---------------------------- MODULE Spec2Model ----------------------------
(***************************************************************************)
(* mpitcl: the inter-rank messaging layer (mpitcl.cpp) and the pull        *)
(* distribution of binary data (mpiSpecTclPackage.cpp, CMPIDataGetter and  *)
(* CMPIDistributor).                                                       *)
(*                                                                         *)
(* MPI is modelled as one FIFO of messages per (source, destination)       *)
(* pair.  MPI_Send appends (the messages are small: eager sends).          *)
(* MPI_Recv(source, tag) takes the first message of that tag from that     *)
(* source (MPI's non-overtaking rule) and blocks while there is none.      *)
(* MPI_Probe(ANY_SOURCE, ANY_TAG) reports the first message of some        *)
(* source that has one, without taking it.                                 *)
(***************************************************************************)
EXTENDS Integers, Sequences, FiniteSets, Bags, TLC

\* ------------------------------------------------------------------ bounds
GroupSize  == 3      \* ranks 0 .. GroupSize-1 (MPI_Comm_size)
MaxRecords == 2      \* data records the source offers before end-of-data
MaxStarts  == 1      \* startnotifier commands typed on rank 0
MaxStops   == 1      \* stopnotifier commands typed on rank 0
MaxCmds    == 2      \* mpi::mpi execute commands issued, all ranks together
MaxSends   == 1      \* mpi::mpi send commands issued, all ranks together
MaxHandles == 3      \* mpi::mpi handle commands issued, all ranks together
MaxForeign == 2      \* messages sent with a tag this layer does not define
MaxStopSeq == 2      \* stopnotifier commands where two follow each other
MaxOrdered == 4      \* execute commands where the order of scripts is checked

\* --------------------------------------------------------------- constants
MPI_TAG_SCRIPT     == 1
MPI_TAG_TCLDATA    == 2
MPI_TAG_BINDATA    == 3
MPI_TAG_STOPTHREAD == 4

Ranks   == 0 .. (GroupSize - 1)
Workers == 1 .. (GroupSize - 1)

VARIABLES
  chan,          \* chan[s][d]: messages sent by s to d and not yet received
  aborted,       \* MPI's fatal error handler has ended the job
  \* rank 0, main thread
  mainPc,        \* where the main thread of rank 0 is
  hdInfo,        \* handleData: info (0: end of data, k > 0: record k)
  hdTo,          \* handleData/runDownConsumers: stat.MPI_SOURCE of the request
  clientRanks,   \* CMPIDistributor::m_clientRanks
  nOffered,      \* records offered so far
  ended,         \* end-of-data has been offered
  events,        \* the main thread's Tcl event queue (mpiEvent.s_status)
  curEvent,      \* the event mpiEventHandler is dispatching
  \* rank 0, probe threads
  threads,       \* the probe threads: a bag of [pc, src, tag], one copy each
  nStarts, nStops,
  \* workers as data getters
  gPc,           \* gPc[r]: "idle", "wait" (in read()), "ended"
  got,           \* got[r]: what read() returned so far (0: zero length)
  \* every rank as a script engine
  wPc,           \* wPc[r], r > 0: where the worker's main thread is
  curScript,     \* curScript[r]: the script a received message made r evaluate
  cmd,           \* cmd[r]: the mpi::mpi command r is executing
  result,        \* result[r]: how r's last mpi::mpi command ended
  cmds,          \* every mpi::mpi command issued: [by, op, dest, kind]
  sentTo,        \* sentTo[c]: the ranks command c sent to, in order
  evalLog,       \* evalLog[r]: the scripts rank r's engine was given, in order
  handler,       \* handler[r]: CTclMpi::m_pDataHandler (0: nullptr)
  hLog,          \* hLog[r]: the mpi::mpi handle commands of r: <<op, value>>
  taken,         \* taken[r]: <<src, tag, body, handler>> of the Tcl data and
                 \* unrecognized messages mpiEventProcessor received on r
  invoked,       \* invoked[r]: <<handler, src, body>> of every handler call
  nForeign,      \* messages sent with a tag this layer does not define
  \* history
  received,      \* <<rank, info>> of every request the distributor received:
                 \* who sent it and what handleData was offering (0: the end)
  replies,       \* <<rank, body>> of every reply the distributor sent, in order
  observed,      \* <<src, tag>> of every arrival a probe thread turned into an event
  dispatched,    \* <<src, tag>> of every event mpiEventHandler was called with
  stolen,        \* the ranks whose request the event processor received
  startedRunning,\* startnotifier was invoked while a probe thread existed
  startedLive    \* startnotifier was invoked while the cycle was running

vars == <<chan, aborted, mainPc, hdInfo, hdTo, clientRanks, nOffered, ended,
          events, curEvent, threads, nStarts, nStops, gPc, got, received,
          replies, observed, dispatched, stolen, startedRunning, startedLive,
          wPc, curScript, cmd, result, cmds, sentTo, evalLog, handler,
          hLog, taken, invoked, nForeign>>

\* ------------------------------------------------------------- MPI helpers
Msg(t, b) == [tag |-> t, body |-> b]

\* Index of the first message of tag t in queue q, 0 if there is none.
FirstIdx(q, t) ==
  IF \E i \in 1 .. Len(q) : q[i].tag = t
    THEN CHOOSE i \in 1 .. Len(q) :
           /\ q[i].tag = t
           /\ \A j \in 1 .. (i - 1) : q[j].tag # t
    ELSE 0

HasTag(q, t) == FirstIdx(q, t) # 0

RemoveAt(q, i) == SubSeq(q, 1, i - 1) \o SubSeq(q, i + 1, Len(q))

\* MPI_Send(buf, n, MPI_CHAR, d, t, MPI_COMM_WORLD) by rank s.
MPI_Send(c, s, d, t, b) == [c EXCEPT ![s][d] = Append(@, Msg(t, b))]

\* MPI_Recv(.., s, t, ..) by rank d: the channel afterwards.
MPI_Recv(c, s, d, t) == [c EXCEPT ![s][d] = RemoveAt(@, FirstIdx(@, t))]

\* Faulty variant: the newest message of the tag is delivered.
MPI_RecvMsgNewest(c, s, d, t) ==
  c[s][d][CHOOSE i \in 1 .. Len(c[s][d]) :
            /\ c[s][d][i].tag = t
            /\ \A j \in (i + 1) .. Len(c[s][d]) : c[s][d][j].tag # t]

\* The message such a receive delivers.
MPI_RecvMsg(c, s, d, t) == c[s][d][FirstIdx(c[s][d], t)]

\* A probe thread that has not probed yet.
Probing == [pc |-> "probe", src |-> 0, tag |-> 0]
NoEvent == [src |-> 0, tag |-> 0]
AllDest == [kind |-> "all", rank |-> 0]
NoCmd   == [op |-> "none", dest |-> AllDest, sid |-> 0, i |-> 0, ret |-> ""]

One(st) == SetToBag({st})
NThreads == BagCardinality(threads)

IsPrefix(a, b) == Len(a) <= Len(b) /\ SubSeq(b, 1, Len(a)) = a

\* ------------------------------------------------------------------- Init
Init ==
  /\ chan = [s \in Ranks |-> [d \in Ranks |-> <<>>]]
  /\ aborted = FALSE
  /\ mainPc = "idle"
  /\ hdInfo = 0
  /\ hdTo = 0
  /\ clientRanks = {}
  /\ nOffered = 0
  /\ ended = FALSE
  /\ events = <<>>
  /\ curEvent = NoEvent
  \* initInteractive starts the receiver thread.
  /\ threads = One(Probing)
  /\ nStarts = 0
  /\ nStops = 0
  /\ gPc = [r \in Workers |-> "idle"]
  /\ got = [r \in Workers |-> <<>>]
  /\ received = <<>>
  /\ replies = <<>>
  /\ observed = <<>>
  /\ dispatched = <<>>
  /\ stolen = {}
  /\ startedRunning = FALSE
  /\ startedLive = FALSE
  \* main: the ranks above 0 run childMainLoop.
  /\ wPc = [r \in Workers |-> "probe"]
  /\ curScript = [r \in Ranks |-> 0]
  /\ cmd = [r \in Ranks |-> NoCmd]
  /\ result = [r \in Ranks |-> ""]
  /\ cmds = <<>>
  /\ sentTo = <<>>
  /\ evalLog = [r \in Ranks |-> <<>>]
  \* CTclMpi's constructor: m_pDataHandler(nullptr).
  /\ handler = [r \in Ranks |-> 0]
  /\ hLog = [r \in Ranks |-> <<>>]
  /\ taken = [r \in Ranks |-> <<>>]
  /\ invoked = [r \in Ranks |-> <<>>]
  /\ nForeign = 0

distVars   == <<hdInfo, hdTo, clientRanks, nOffered, ended>>
bridgeVars == <<events, curEvent, threads, nStarts, nStops>>
getVars    == <<gPc, got>>
startHist  == <<startedRunning, startedLive>>
distHist   == <<received, replies>>
evHist     == <<observed, dispatched, stolen>>
dataVars   == <<handler, hLog, taken, invoked, nForeign>>
cmdVars    == <<wPc, curScript, cmd, result, cmds, sentTo, evalLog, dataVars>>

\* ----------------------------------------------------- CMPIDataGetter::read
\* The request: a zero length BINDATA message to rank 0.
ReadRequest(r) ==
  /\ ~aborted
  /\ gPc[r] = "idle"
  /\ chan' = MPI_Send(chan, r, 0, MPI_TAG_BINDATA, 0)
  /\ gPc' = [gPc EXCEPT ![r] = "wait"]
  /\ UNCHANGED <<cmdVars, aborted, mainPc, distVars, bridgeVars, got, distHist, evHist,
                 startHist>>

\* MPI_Probe(0, BINDATA), MPI_Recv: the reply, its size first in the result.
\* A caller that got size 0 does not read again.
ReadReply(r) ==
  /\ ~aborted
  /\ gPc[r] = "wait"
  /\ HasTag(chan[0][r], MPI_TAG_BINDATA)
  /\ LET m == MPI_RecvMsg(chan, 0, r, MPI_TAG_BINDATA) IN
       /\ got' = [got EXCEPT ![r] = Append(@, m.body)]
       /\ gPc' = [gPc EXCEPT ![r] = IF m.body = 0 THEN "ended" ELSE "idle"]
  /\ chan' = MPI_Recv(chan, 0, r, MPI_TAG_BINDATA)
  /\ UNCHANGED <<cmdVars, aborted, mainPc, distVars, bridgeVars, distHist, evHist,
                 startHist>>

\* -------------------------------------------------------- CMPIDistributor
\* handleData is called with a record (info.first > 0): the data source has
\* records left.
OfferData ==
  /\ ~aborted
  /\ mainPc = "idle"
  /\ ~ended
  /\ nOffered < MaxRecords
  /\ nOffered' = nOffered + 1
  /\ hdInfo' = nOffered + 1
  /\ mainPc' = "hd_recv"
  /\ UNCHANGED <<cmdVars, chan, aborted, hdTo, clientRanks, ended, bridgeVars, getVars,
                 distHist, evHist, startHist>>

\* handleData, the MPI_Recv of the next request from any source.
HandleDataRecv ==
  /\ ~aborted
  /\ mainPc = "hd_recv"
  /\ \E s \in Ranks :
       /\ HasTag(chan[s][0], MPI_TAG_BINDATA)
       /\ chan' = MPI_Recv(chan, s, 0, MPI_TAG_BINDATA)
       /\ hdTo' = s
       /\ received' = Append(received, <<s, hdInfo>>)
  /\ mainPc' = "hd_send"
  /\ UNCHANGED <<cmdVars, aborted, hdInfo, clientRanks, nOffered, ended, bridgeVars,
                 getVars, replies, evHist, startHist>>

\* Faulty variant: the requester is not remembered.
HandleDataSendNoInsert ==
  /\ ~aborted
  /\ mainPc = "hd_send"
  /\ chan' = MPI_Send(chan, 0, hdTo, MPI_TAG_BINDATA, hdInfo)
  /\ replies' = Append(replies, <<hdTo, hdInfo>>)
  /\ mainPc' = "idle"
  /\ UNCHANGED <<cmdVars, aborted, hdInfo, hdTo, clientRanks, nOffered, ended,
                 bridgeVars, getVars, received, evHist, startHist>>

\* Faulty variant: the record is sent with a count of 0.
HandleDataSendEmpty ==
  /\ ~aborted
  /\ mainPc = "hd_send"
  /\ chan' = MPI_Send(chan, 0, hdTo, MPI_TAG_BINDATA, 0)
  /\ clientRanks' = clientRanks \cup {hdTo}
  /\ replies' = Append(replies, <<hdTo, 0>>)
  /\ mainPc' = "idle"
  /\ UNCHANGED <<cmdVars, aborted, hdInfo, hdTo, nOffered, ended, bridgeVars,
                 getVars, received, evHist, startHist>>

\* Faulty variant: the record is pushed to every worker.
HandleDataSendToAll ==
  /\ ~aborted
  /\ mainPc = "hd_send"
  /\ chan' = [chan EXCEPT ![0] =
                [d \in Ranks |->
                   IF d \in Workers
                     THEN Append(chan[0][d], Msg(MPI_TAG_BINDATA, hdInfo))
                     ELSE chan[0][d]]]
  /\ clientRanks' = clientRanks \cup {hdTo}
  /\ replies' = Append(replies, <<hdTo, hdInfo>>)
  /\ mainPc' = "idle"
  /\ UNCHANGED <<cmdVars, aborted, hdInfo, hdTo, nOffered, ended, bridgeVars,
                 getVars, received, evHist, startHist>>

\* handleData, the MPI_Send of the record to the requester and the insert.
HandleDataSend ==
  /\ ~aborted
  /\ mainPc = "hd_send"
  /\ chan' = MPI_Send(chan, 0, hdTo, MPI_TAG_BINDATA, hdInfo)
  /\ clientRanks' = clientRanks \cup {hdTo}
  /\ replies' = Append(replies, <<hdTo, hdInfo>>)
  /\ mainPc' = "idle"
  /\ UNCHANGED <<cmdVars, aborted, hdInfo, hdTo, nOffered, ended, bridgeVars, getVars,
                 received, evHist, startHist>>

\* handleData is called with the end of data (info.first == 0).
OfferEnd ==
  /\ ~aborted
  /\ mainPc = "idle"
  /\ ~ended
  /\ ended' = TRUE
  /\ hdInfo' = 0
  /\ mainPc' = "rd_loop"
  /\ UNCHANGED <<cmdVars, chan, aborted, hdTo, clientRanks, nOffered, bridgeVars,
                 getVars, distHist, evHist, startHist>>

\* Faulty variant: the loop runs while requests are pending, not until the set is
\* empty.
RunDownWhilePending == \E s \in Ranks : HasTag(chan[s][0], MPI_TAG_BINDATA)

\* Faulty variant: the loop's body runs once before the set is tested.
RunDownAtLeastOnce ==
  \/ clientRanks # {}
  \/ \A i \in 1 .. Len(received) : received[i][2] # 0

\* runDownConsumers' loop condition.
RunDownMore == clientRanks # {}

\* runDownConsumers, the MPI_Recv in the loop body.
RunDownRecv ==
  /\ ~aborted
  /\ mainPc = "rd_loop"
  /\ RunDownMore
  /\ \E s \in Ranks :
       /\ HasTag(chan[s][0], MPI_TAG_BINDATA)
       /\ chan' = MPI_Recv(chan, s, 0, MPI_TAG_BINDATA)
       /\ hdTo' = s
       /\ received' = Append(received, <<s, hdInfo>>)
  /\ mainPc' = "rd_end"
  /\ UNCHANGED <<cmdVars, aborted, hdInfo, clientRanks, nOffered, ended, bridgeVars,
                 getVars, replies, evHist, startHist>>

\* Faulty variant: the end goes to a known consumer, not to the requester.
EndFileToKnownConsumer(rank) ==
  LET k == CHOOSE x \in clientRanks : \A y \in clientRanks : x <= y IN
    /\ chan' = MPI_Send(chan, 0, k, MPI_TAG_BINDATA, 0)
    /\ clientRanks' = clientRanks \ {k}
    /\ replies' = Append(replies, <<k, 0>>)

\* Faulty variant: a rank that is not in the set is put into it.
EndFileToConsumerToggle(rank) ==
  /\ chan' = MPI_Send(chan, 0, rank, MPI_TAG_BINDATA, 0)
  /\ clientRanks' = IF rank \in clientRanks THEN clientRanks \ {rank}
                                            ELSE clientRanks \cup {rank}
  /\ replies' = Append(replies, <<rank, 0>>)

\* endFileToConsumer(rank): a zero length reply, and the erase.
EndFileToConsumer(rank) ==
  /\ chan' = MPI_Send(chan, 0, rank, MPI_TAG_BINDATA, 0)
  /\ clientRanks' = clientRanks \ {rank}
  /\ replies' = Append(replies, <<rank, 0>>)

RunDownEnd ==
  /\ ~aborted
  /\ mainPc = "rd_end"
  /\ EndFileToConsumer(hdTo)
  /\ mainPc' = "rd_loop"
  /\ UNCHANGED <<cmdVars, aborted, hdInfo, hdTo, nOffered, ended, bridgeVars, getVars,
                 received, evHist, startHist>>

\* runDownConsumers returns, and handleData with it.
RunDownReturn ==
  /\ ~aborted
  /\ mainPc = "rd_loop"
  /\ ~RunDownMore
  /\ mainPc' = "idle"
  /\ UNCHANGED <<cmdVars, chan, aborted, distVars, bridgeVars, getVars, distHist,
                 evHist, startHist>>

\* ------------------------------------------------- rank 0's probe threads
\* startMpiReceiverThread: a new thread, about to probe.
Spawn(th) == th (+) One(Probing)

\* mpiProbeThread, MPI_Probe(ANY_SOURCE, ANY_TAG) and the test of the tag.
MpiProbe ==
  /\ ~aborted
  /\ BagIn(Probing, threads)
  /\ \E s \in Ranks :
       /\ chan[s][0] # <<>>
       /\ LET m == Head(chan[s][0]) IN
            /\ threads' = (threads (-) One(Probing)) (+) One(
                 [pc  |-> IF m.tag = MPI_TAG_STOPTHREAD THEN "stoprecv"
                                                        ELSE "queue",
                  src |-> s, tag |-> m.tag])
            /\ observed' = IF m.tag = MPI_TAG_STOPTHREAD
                             THEN observed
                             ELSE Append(observed, <<s, m.tag>>)
  /\ UNCHANGED <<cmdVars, chan, aborted, mainPc, distVars, events, curEvent, nStarts,
                 nStops, getVars, distHist, dispatched, stolen, startHist>>

\* The values the uninitialized int count of mpiProbeThread can hold, as far
\* as MPI_Recv tells them apart: a negative count is MPI_ERR_COUNT.
GarbageCounts == {-1, 0}

\* mpiProbeThread, the stop branch: MPI_Recv(buf, count, ...) of the token
\* message with count never set, then the thread ends.  MPI's default error
\* handler (MPI_ERRORS_ARE_FATAL) ends the job on MPI_ERR_COUNT.
StopRecv(st) ==
  /\ ~aborted
  /\ st.pc = "stoprecv"
  /\ \E count \in GarbageCounts :
       IF count < 0
         THEN /\ aborted' = TRUE
              /\ UNCHANGED <<chan, threads>>
         ELSE /\ HasTag(chan[st.src][0], st.tag)
              /\ chan' = MPI_Recv(chan, st.src, 0, st.tag)
              /\ threads' = threads (-) One(st)
              /\ UNCHANGED aborted
  /\ UNCHANGED <<cmdVars, mainPc, distVars, events, curEvent, nStarts, nStops, getVars,
                 distHist, evHist, startHist>>

\* Faulty variant: the probe's status is not copied into the event.
QueueEventNoStatus(st) ==
  /\ ~aborted
  /\ st.pc = "queue"
  /\ events' = Append(events, NoEvent)
  /\ threads' = threads (-) One(st)
  /\ UNCHANGED <<cmdVars, chan, aborted, mainPc, distVars, curEvent, nStarts,
                 nStops, getVars, distHist, evHist, startHist>>

\* Faulty variant: the thread loops: it queues the event and probes again.
QueueEventAndLoop(st) ==
  /\ ~aborted
  /\ st.pc = "queue"
  /\ events' = Append(events, [src |-> st.src, tag |-> st.tag])
  /\ threads' = (threads (-) One(st)) (+) One(Probing)
  /\ UNCHANGED <<cmdVars, chan, aborted, mainPc, distVars, curEvent, nStarts,
                 nStops, getVars, distHist, evHist, startHist>>

\* mpiProbeThread, any other tag: Tcl_ThreadQueueEvent(TCL_QUEUE_TAIL) of an
\* event holding the probe's status, Tcl_ThreadAlert, and the thread ends
\* (what is left of it touches only its own data).
QueueEvent(st) ==
  /\ ~aborted
  /\ st.pc = "queue"
  /\ events' = Append(events, [src |-> st.src, tag |-> st.tag])
  /\ threads' = threads (-) One(st)
  /\ UNCHANGED <<cmdVars, chan, aborted, mainPc, distVars, curEvent, nStarts, nStops,
                 getVars, distHist, evHist, startHist>>

\* --------------------------------------------- rank 0's main thread, events
\* The event loop calls mpiEventHandler with the event at the queue's head.
MpiEventHandler ==
  /\ ~aborted
  /\ mainPc = "idle"
  /\ events # <<>>
  /\ curEvent' = Head(events)
  /\ events' = Tail(events)
  /\ dispatched' = Append(dispatched, <<Head(events).src, Head(events).tag>>)
  /\ mainPc' = "ev_recv"
  /\ UNCHANGED <<cmdVars, chan, aborted, distVars, threads, nStarts, nStops, getVars,
                 distHist, observed, stolen, startHist>>

\* The handler scripts a process can register, and how evaluating each ends.
HandlerScripts == {1, 2}
HandlerKind(h) == IF h = 1 THEN "ok" ELSE "fail"

\* The switch hands something to the engine: a script, or the handler
\* command if Tcl data arrives while a handler is registered.
Evaluates(r, tag) ==
  \/ tag = MPI_TAG_SCRIPT
  \/ tag = MPI_TAG_TCLDATA /\ handler[r] # 0

\* Faulty variant: the Tcl data case does not test for a handler.
SwitchNoTest(r, src, tag, body) ==
  /\ curScript' = [curScript EXCEPT ![r] =
                     CASE tag = MPI_TAG_SCRIPT -> body
                       [] tag = MPI_TAG_TCLDATA /\ handler[r] # 0 -> -handler[r]
                       [] OTHER -> @]
  /\ taken' = [taken EXCEPT ![r] =
                 IF tag \notin {MPI_TAG_SCRIPT, MPI_TAG_BINDATA}
                   THEN Append(@, <<src, tag, body, handler[r]>>)
                   ELSE @]
  /\ invoked' = [invoked EXCEPT ![r] =
                   IF tag = MPI_TAG_TCLDATA
                     THEN Append(@, <<handler[r], src, body>>)
                     ELSE @]
  /\ evalLog' = [evalLog EXCEPT ![r] =
                     IF tag = MPI_TAG_SCRIPT THEN Append(@, body) ELSE @]
  /\ stolen' = IF tag = MPI_TAG_BINDATA /\ r = 0
                 THEN stolen \cup {src}
                 ELSE stolen

\* mpiEventProcessor's switch on the tag, on rank r, for a message of
\* source src: a script is handed to the engine (GlobalEval); Tcl data is
\* handed to the handler script, with the source and the data appended, if
\* there is one; binary data goes to gpBinaryDataHandler if there is one;
\* anything else is reported and ignored.  A handler being evaluated is
\* curScript -h.
Switch(r, src, tag, body) ==
  /\ curScript' = [curScript EXCEPT ![r] =
                     CASE tag = MPI_TAG_SCRIPT -> body
                       [] tag = MPI_TAG_TCLDATA /\ handler[r] # 0 -> -handler[r]
                       [] OTHER -> @]
  /\ taken' = [taken EXCEPT ![r] =
                 IF tag \notin {MPI_TAG_SCRIPT, MPI_TAG_BINDATA}
                   THEN Append(@, <<src, tag, body, handler[r]>>)
                   ELSE @]
  /\ invoked' = [invoked EXCEPT ![r] =
                   IF tag = MPI_TAG_TCLDATA /\ handler[r] # 0
                     THEN Append(@, <<handler[r], src, body>>)
                     ELSE @]
  /\ evalLog' = [evalLog EXCEPT ![r] =
                     IF tag = MPI_TAG_SCRIPT THEN Append(@, body) ELSE @]
  /\ stolen' = IF tag = MPI_TAG_BINDATA /\ r = 0
                 THEN stolen \cup {src}
                 ELSE stolen

\* mpiEventProcessor on rank 0: MPI_Recv(msg, count, source, tag) with the
\* probe's source and tag, then the switch on the tag.
MpiEventProcessor ==
  /\ ~aborted
  /\ mainPc = "ev_recv"
  /\ HasTag(chan[curEvent.src][0], curEvent.tag)
  /\ Switch(0, curEvent.src, curEvent.tag,
            MPI_RecvMsg(chan, curEvent.src, 0, curEvent.tag).body)
  /\ chan' = MPI_Recv(chan, curEvent.src, 0, curEvent.tag)
  /\ mainPc' = IF Evaluates(0, curEvent.tag) THEN "ev_eval" ELSE "ev_restart"
  /\ UNCHANGED <<aborted, distVars, bridgeVars, getVars, distHist, observed,
                 dispatched, startHist, wPc, cmd, result, cmds, sentTo,
                 handler, hLog, nForeign>>

\* mpiEventHandler, after the processor: startMpiReceiverThread.
RestartReceiver ==
  /\ ~aborted
  /\ mainPc = "ev_restart"
  /\ threads' = Spawn(threads)
  /\ curEvent' = NoEvent
  /\ mainPc' = "idle"
  /\ UNCHANGED <<cmdVars, chan, aborted, distVars, events, nStarts, nStops, getVars,
                 distHist, evHist, startHist>>

\* ------------------------------------------- startnotifier and stopnotifier
Dispatching ==
  \/ mainPc \in {"ev_recv", "ev_eval", "ev_restart"}
  \/ mainPc = "cmd" /\ cmd[0].ret = "ev_eval"

CycleRunning == NThreads > 0 \/ events # <<>> \/ Dispatching

\* CTclMpi::startNotifier on rank 0.
StartNotifier ==
  /\ ~aborted
  /\ mainPc = "idle"
  /\ nStarts < MaxStarts
  /\ nStarts' = nStarts + 1
  /\ threads' = Spawn(threads)
  /\ startedRunning' = (startedRunning \/ NThreads > 0)
  /\ startedLive' = (startedLive \/ CycleRunning)
  /\ UNCHANGED <<cmdVars, chan, aborted, mainPc, distVars, events, curEvent, nStops,
                 getVars, distHist, evHist>>

\* CTclMpi::stopNotifier on rank 0: a zero length message to itself.
StopNotifierUpTo(max) ==
  /\ ~aborted
  /\ mainPc = "idle"
  /\ nStops < max
  /\ nStops' = nStops + 1
  /\ chan' = MPI_Send(chan, 0, 0, MPI_TAG_STOPTHREAD, 0)
  /\ UNCHANGED <<cmdVars, aborted, mainPc, distVars, events, curEvent, threads, nStarts,
                 getVars, distHist, evHist, startHist>>

StopNotifier == StopNotifierUpTo(MaxStops)

\* ------------------------------------------------------ the script engine
\* A script is known by the command that carried it; evaluating it returns,
\* fails (GlobalEval throws a CTCLException, a CException) or exits the
\* process (Tcl's exit calls finalize: MPI_Finalize and exit).
Kinds == {"ok", "fail", "exit"}
KindOf(sid) == IF sid < 0 THEN HandlerKind(-sid) ELSE cmds[sid].kind

\* The thread of rank r that runs scripts: rank 0's main thread, a worker's
\* only thread.
PcOf(r) == IF r = 0 THEN mainPc ELSE wPc[r]

\* That thread moves to pc; the probe threads of a process end with it.
Leaves(r, pc) ==
  /\ mainPc' = IF r = 0 THEN pc ELSE mainPc
  /\ wPc' = IF r = 0 THEN wPc ELSE [wPc EXCEPT ![r] = pc]
  /\ threads' = IF r = 0 /\ pc \in {"exited", "crashed"} THEN EmptyBag
                                                         ELSE threads

\* Faulty variant: a tag that is not recognized ends the loop.
ChildLoopStrict(r) ==
  /\ ~aborted
  /\ wPc[r] = "probe"
  /\ \E s \in Ranks :
       /\ chan[s][r] # <<>>
       /\ LET m == Head(chan[s][r]) IN
            /\ Switch(r, s, m.tag, m.body)
            /\ chan' = MPI_Recv(chan, s, r, m.tag)
            /\ wPc' = [wPc EXCEPT ![r] =
                         IF Evaluates(r, m.tag) THEN "eval"
                         ELSE IF m.tag \in {MPI_TAG_TCLDATA, MPI_TAG_BINDATA}
                                THEN "probe" ELSE "ended"]
  /\ UNCHANGED <<aborted, mainPc, distVars, bridgeVars, getVars, distHist,
                 observed, dispatched, startHist, cmd, result, cmds, sentTo,
                 handler, hLog, nForeign>>

\* childMainLoop on rank r > 0: MPI_Probe(ANY_SOURCE, ANY_TAG), then
\* mpiEventProcessor: MPI_Recv of that message and the switch on its tag.
\* Nothing else receives on r, so the probed message is the one received.
ChildLoop(r) ==
  /\ ~aborted
  /\ wPc[r] = "probe"
  /\ \E s \in Ranks :
       /\ chan[s][r] # <<>>
       /\ LET m == Head(chan[s][r]) IN
            /\ Switch(r, s, m.tag, m.body)
            /\ chan' = MPI_Recv(chan, s, r, m.tag)
            /\ wPc' = [wPc EXCEPT ![r] =
                         IF Evaluates(r, m.tag) THEN "eval" ELSE "probe"]
  /\ UNCHANGED <<aborted, mainPc, distVars, bridgeVars, getVars, distHist,
                 observed, dispatched, startHist, cmd, result, cmds, sentTo,
                 handler, hLog, nForeign>>

\* interp.GlobalEval(msg) in mpiEventProcessor ends.  On a worker a failure
\* is caught by childMainLoop, outside its loop: the loop is over.  On rank
\* 0 nothing between mpiEventHandler and main catches it: the process is
\* terminated.
EvalDone(r) ==
  /\ ~aborted
  /\ PcOf(r) = (IF r = 0 THEN "ev_eval" ELSE "eval")
  /\ LET k == KindOf(curScript[r]) IN
       Leaves(r, CASE k = "ok"   -> (IF r = 0 THEN "ev_restart" ELSE "probe")
                   [] k = "fail" -> (IF r = 0 THEN "crashed" ELSE "ended")
                   [] k = "exit" -> "exited")
  /\ curScript' = [curScript EXCEPT ![r] = 0]
  /\ UNCHANGED <<chan, aborted, distVars, events, curEvent, nStarts, nStops,
                 getVars, distHist, evHist, startHist, cmd, result, cmds,
                 sentTo, evalLog, dataVars>>

\* ------------------------------------------------------- CTclMpi::execute
\* Faulty variant: the loops stop one rank short.
AppSizeShort == GroupSize - 1

\* appsize() and myrank() are MPI_Comm_size and MPI_Comm_rank.
AppSize == GroupSize

\* The destinations a caller can name: all, others, a rank, and a number
\* that is no rank.
Dests ==
  {AllDest, [kind |-> "others", rank |-> 0]}
    \cup {[kind |-> "rank", rank |-> d] : d \in -1 .. GroupSize}

\* The command returns to the script or prompt that invoked it: operator()
\* gives TCL_OK, or TCL_ERROR for whatever was thrown.
Finish(r, res) ==
  /\ cmd' = [cmd EXCEPT ![r] = NoCmd]
  /\ result' = [result EXCEPT ![r] = res]
  /\ Leaves(r, cmd[r].ret)

\* interp.GlobalEval(script) on the calling rank.
LocalEval(r, sid) ==
  /\ evalLog' = [evalLog EXCEPT ![r] = Append(@, sid)]
  /\ CASE KindOf(sid) = "ok"   -> Finish(r, "ok")
       [] KindOf(sid) = "fail" -> Finish(r, "error")
       [] KindOf(sid) = "exit" -> /\ cmd' = [cmd EXCEPT ![r] = NoCmd]
                                  /\ UNCHANGED result
                                  /\ Leaves(r, "exited")

\* Faulty variant: the script is sent twice.
ExecuteScriptTwice(r, rank, sid) ==
  /\ chan' = MPI_Send(MPI_Send(chan, r, rank, MPI_TAG_SCRIPT, sid),
                      r, rank, MPI_TAG_SCRIPT, sid)
  /\ sentTo' = [sentTo EXCEPT ![sid] = Append(Append(@, rank), rank)]

\* executeScript(rank, script): MPI_Send with MPI_TAG_SCRIPT.
ExecuteScript(r, rank, sid) ==
  /\ chan' = MPI_Send(chan, r, rank, MPI_TAG_SCRIPT, sid)
  /\ sentTo' = [sentTo EXCEPT ![sid] = Append(@, rank)]

\* Rank r can be given an mpi::mpi command: at rank 0's prompt, or by a
\* script that r is evaluating.
CanInvoke(r) ==
  /\ ~aborted
  /\ PcOf(r) \in (IF r = 0 THEN {"idle", "ev_eval"} ELSE {"eval"})

\* The commands of subcommand op issued so far.
NumOp(op) == Cardinality({c \in 1 .. Len(cmds) : cmds[c].op = op})

\* mpi::mpi execute rank script is invoked on rank r, with a destination of
\* dests and a script of kinds, as long as fewer than max were issued.
ExecuteUpTo(r, dests, kinds, max) ==
  /\ CanInvoke(r)
  /\ NumOp("execute") < max
  /\ \E d \in dests, k \in kinds :
       /\ cmds' = Append(cmds, [by |-> r, op |-> "execute", dest |-> d,
                                kind |-> k])
       /\ cmd' = [cmd EXCEPT ![r] = [op |-> "execute", dest |-> d,
                                     sid |-> Len(cmds) + 1, i |-> 0,
                                     ret |-> PcOf(r)]]
  /\ sentTo' = Append(sentTo, <<>>)
  /\ result' = [result EXCEPT ![r] = ""]
  /\ Leaves(r, "cmd")
  /\ UNCHANGED <<chan, aborted, distVars, events, curEvent, nStarts, nStops,
                 getVars, distHist, evHist, startHist, curScript, evalLog,
                 dataVars>>

ExecuteWith(r, dests, kinds) == ExecuteUpTo(r, dests, kinds, MaxCmds)

Execute(r) == ExecuteWith(r, Dests, Kinds)

InExecute(r, kinds) ==
  /\ ~aborted
  /\ PcOf(r) = "cmd"
  /\ cmd[r].op = "execute"
  /\ cmd[r].dest.kind \in kinds

\* One turn of the for loop of "all" and of "others".
ExecuteLoop(r) ==
  /\ InExecute(r, {"all", "others"})
  /\ cmd[r].i < AppSize
  /\ IF cmd[r].i # r
       THEN ExecuteScript(r, cmd[r].i, cmd[r].sid)
       ELSE UNCHANGED <<chan, sentTo>>
  /\ cmd' = [cmd EXCEPT ![r].i = @ + 1]
  /\ UNCHANGED <<aborted, mainPc, distVars, bridgeVars, getVars, distHist,
                 evHist, startHist, wPc, curScript, result, cmds, evalLog,
                 dataVars>>

\* "all", after the loop: the script is evaluated here, last.
ExecuteAllEval(r) ==
  /\ InExecute(r, {"all"})
  /\ cmd[r].i >= AppSize
  /\ LocalEval(r, cmd[r].sid)
  /\ UNCHANGED <<chan, aborted, distVars, events, curEvent, nStarts, nStops,
                 getVars, distHist, evHist, startHist, curScript, cmds,
                 sentTo, dataVars>>

\* Faulty variant: "others" ends as "all" does, with the evaluation here.
ExecuteOthersThenEval(r) ==
  /\ InExecute(r, {"others"})
  /\ cmd[r].i >= AppSize
  /\ LocalEval(r, cmd[r].sid)
  /\ UNCHANGED <<chan, aborted, distVars, events, curEvent, nStarts, nStops,
                 getVars, distHist, evHist, startHist, curScript, cmds,
                 sentTo, dataVars>>

\* "others", after the loop.
ExecuteOthersDone(r) ==
  /\ InExecute(r, {"others"})
  /\ cmd[r].i >= AppSize
  /\ Finish(r, "ok")
  /\ UNCHANGED <<chan, aborted, distVars, events, curEvent, nStarts, nStops,
                 getVars, distHist, evHist, startHist, curScript, cmds,
                 sentTo, evalLog, dataVars>>

\* A numeric rank: sent to it, evaluated here if it is this rank, "Invalid
\* rank for execute" thrown if it is no rank.
ExecuteRank(r) ==
  /\ InExecute(r, {"rank"})
  /\ LET receiver == cmd[r].dest.rank IN
       IF receiver < AppSize /\ receiver >= 0
         THEN IF receiver # r
                THEN /\ ExecuteScript(r, receiver, cmd[r].sid)
                     /\ Finish(r, "ok")
                     /\ UNCHANGED evalLog
                ELSE /\ LocalEval(r, cmd[r].sid)
                     /\ UNCHANGED <<chan, sentTo>>
         ELSE /\ Finish(r, "Invalid rank for execute")
              /\ UNCHANGED <<chan, sentTo, evalLog>>
  /\ UNCHANGED <<aborted, distVars, events, curEvent, nStarts, nStops,
                 getVars, distHist, evHist, startHist, curScript, cmds,
                 dataVars>>

\* ---------------------------------------------------------- CTclMpi::send
\* The ranks mpi::mpi send sends to, in order: "others" is every rank but
\* this one, "all" is every rank, a number is that rank.
SendTargets(r, d) ==
  CASE d.kind = "others" ->
         SelectSeq([i \in 1 .. AppSize |-> i - 1], LAMBDA x : x # r)
    [] d.kind = "all" -> [i \in 1 .. AppSize |-> i - 1]
    [] OTHER -> <<d.rank>>

\* sendData(rank, data): MPI_Send with MPI_TAG_TCLDATA.
SendData(c, r, rank, sid) == MPI_Send(c, r, rank, MPI_TAG_TCLDATA, sid)

\* The loops of send: sendData to each target in turn.
RECURSIVE SendLoop(_, _, _, _)
SendLoop(c, r, targets, sid) ==
  IF targets = <<>> THEN c
  ELSE SendLoop(SendData(c, r, Head(targets), sid), r, Tail(targets), sid)

\* Faulty variant: the rank is checked after the send, which goes to the
\* number taken modulo the group size.
SendWithLateCheck(r, dests) ==
  /\ CanInvoke(r)
  /\ NumOp("send") < MaxSends
  /\ \E d \in dests :
       LET bad == d.kind = "rank" /\ (d.rank < 0 \/ d.rank >= AppSize)
           targets == IF bad THEN <<d.rank % AppSize>> ELSE SendTargets(r, d)
       IN /\ cmds' = Append(cmds, [by |-> r, op |-> "send", dest |-> d,
                                   kind |-> "ok"])
          /\ sentTo' = Append(sentTo, targets)
          /\ chan' = SendLoop(chan, r, targets, Len(cmds) + 1)
          /\ result' = [result EXCEPT ![r] =
                          IF bad THEN "Invalid rank for send" ELSE "ok"]
  /\ UNCHANGED <<aborted, mainPc, distVars, bridgeVars, getVars, distHist,
                 evHist, startHist, wPc, curScript, cmd, evalLog, dataVars>>

\* mpi::mpi send dest data on rank r, with a destination of dests.  The data
\* is known by the command that sent it.  A number that is no rank makes it
\* throw "Invalid rank for send" before anything is sent.
SendWith(r, dests) ==
  /\ CanInvoke(r)
  /\ NumOp("send") < MaxSends
  /\ \E d \in dests :
       LET bad == d.kind = "rank" /\ (d.rank < 0 \/ d.rank >= AppSize)
           targets == IF bad THEN <<>> ELSE SendTargets(r, d)
       IN /\ cmds' = Append(cmds, [by |-> r, op |-> "send", dest |-> d,
                                   kind |-> "ok"])
          /\ sentTo' = Append(sentTo, targets)
          /\ chan' = SendLoop(chan, r, targets, Len(cmds) + 1)
          /\ result' = [result EXCEPT ![r] =
                          IF bad THEN "Invalid rank for send" ELSE "ok"]
  /\ UNCHANGED <<aborted, mainPc, distVars, bridgeVars, getVars, distHist,
                 evHist, startHist, wPc, curScript, cmd, evalLog, dataVars>>

Send(r) == SendWith(r, Dests)

\* -------------------------------------------------------- CTclMpi::handle
\* What follows the subcommand: nothing (NoArg), the empty string (0), or a
\* script.
NoArg == -1
HandleArgs == {NoArg, 0} \cup HandlerScripts

\* The handle commands issued so far, all ranks together.
RECURSIVE SumLen(_, _)
SumLen(f, S) ==
  IF S = {} THEN 0
  ELSE LET x == CHOOSE y \in S : TRUE IN Len(f[x]) + SumLen(f, S \ {x})

\* Faulty variant: a script is only taken when there is no handler yet.
HandleWithKeepFirst(r, args) ==
  /\ CanInvoke(r)
  /\ SumLen(hLog, Ranks) < MaxHandles
  /\ \E a \in args :
       IF a = NoArg
         THEN /\ hLog' = [hLog EXCEPT ![r] = Append(@, <<"get", handler[r]>>)]
              /\ UNCHANGED handler
         ELSE /\ hLog' = [hLog EXCEPT ![r] = Append(@, <<"set", a>>)]
              /\ handler' = [handler EXCEPT ![r] =
                               IF a # 0 /\ @ # 0 THEN @ ELSE a]
  /\ result' = [result EXCEPT ![r] = "ok"]
  /\ UNCHANGED <<chan, aborted, mainPc, distVars, bridgeVars, getVars,
                 distHist, evHist, startHist, wPc, curScript, cmd, cmds,
                 sentTo, evalLog, taken, invoked, nForeign>>

\* mpi::mpi handle ?script? on rank r: without a script the handler is the
\* result (the empty string if there is none); the empty string removes the
\* handler; a script becomes the handler.
HandleWith(r, args) ==
  /\ CanInvoke(r)
  /\ SumLen(hLog, Ranks) < MaxHandles
  /\ \E a \in args :
       IF a = NoArg
         THEN /\ hLog' = [hLog EXCEPT ![r] = Append(@, <<"get", handler[r]>>)]
              /\ UNCHANGED handler
         ELSE /\ hLog' = [hLog EXCEPT ![r] = Append(@, <<"set", a>>)]
              /\ handler' = [handler EXCEPT ![r] = a]
  /\ result' = [result EXCEPT ![r] = "ok"]
  /\ UNCHANGED <<chan, aborted, mainPc, distVars, bridgeVars, getVars,
                 distHist, evHist, startHist, wPc, curScript, cmd, cmds,
                 sentTo, evalLog, taken, invoked, nForeign>>

Handle(r) == HandleWith(r, HandleArgs)

\* Faulty variant: a refused command drops the handler.
RefusedAndReset(r, text) ==
  /\ CanInvoke(r)
  /\ result' = [result EXCEPT ![r] = text]
  /\ handler' = [handler EXCEPT ![r] = 0]
  /\ UNCHANGED <<chan, aborted, mainPc, distVars, bridgeVars, getVars,
                 distHist, evHist, startHist, wPc, curScript, cmd, cmds,
                 sentTo, evalLog, hLog, taken, invoked, nForeign>>

\* ------------------------------------------------ commands that are refused
\* Only result[r] changes.
Refused(r, text) ==
  /\ CanInvoke(r)
  /\ result' = [result EXCEPT ![r] = text]
  /\ UNCHANGED <<chan, aborted, mainPc, distVars, bridgeVars, getVars,
                 distHist, evHist, startHist, wPc, curScript, cmd, cmds,
                 sentTo, evalLog, dataVars>>

\* Faulty variant: no test of the rank.
StopNotifierAnywhere(r) ==
  /\ r # 0
  /\ CanInvoke(r)
  /\ chan' = MPI_Send(chan, r, 0, MPI_TAG_STOPTHREAD, 0)
  /\ result' = [result EXCEPT ![r] = "ok"]
  /\ UNCHANGED <<aborted, mainPc, distVars, bridgeVars, getVars, distHist,
                 evHist, startHist, wPc, curScript, cmd, cmds, sentTo,
                 evalLog, dataVars>>

\* CTclMpi::stopNotifier on a rank other than 0: the throw.
StopNotifierOnWorker(r) ==
  /\ r # 0
  /\ Refused(r, "stopnotifier can only be used in rank 0")

\* CTclMpi::startNotifier on a rank other than 0: the throw.
StartNotifierOnWorker(r) ==
  /\ r # 0
  /\ Refused(r, "startnotifier can only be used in rank 0")

\* operator(): a subcommand it does not know, and requireExactly,
\* requireAtLeast or requireAtMost throwing on the number of words.
BadCommand(r) ==
  \E text \in {"Unrecognized subcommand", "wrong number of parameters"} :
    Refused(r, text)

\* ------------------------------------------- messages of an unknown tag
UnknownTag == 5

\* Compiled code on rank s sends rank d a message whose tag is none of this
\* layer's.
ForeignSend(s, d) ==
  /\ ~aborted
  /\ s # d
  /\ nForeign < MaxForeign
  /\ nForeign' = nForeign + 1
  /\ chan' = MPI_Send(chan, s, d, UnknownTag, 0)
  /\ UNCHANGED <<aborted, mainPc, distVars, bridgeVars, getVars, distHist,
                 evHist, startHist, wPc, curScript, cmd, result, cmds,
                 sentTo, evalLog, handler, hLog, taken, invoked>>

\* ------------------------------------------------------------------- Next
\* The data getters and the distributor.
PullNext ==
  \/ \E r \in Workers : ReadRequest(r)
  \/ \E r \in Workers : ReadReply(r)
  \/ OfferData
  \/ HandleDataRecv
  \/ HandleDataSend
  \/ OfferEnd
  \/ RunDownRecv
  \/ RunDownEnd
  \/ RunDownReturn

\* Rank 0's probe cycle, as initInteractive starts it.
CycleNext ==
  \/ MpiProbe
  \/ \E st \in BagToSet(threads) : QueueEvent(st)
  \/ MpiEventHandler
  \/ MpiEventProcessor
  \/ RestartReceiver

\* Pull distribution from rank 0 while its probe cycle runs.
Next == PullNext \/ CycleNext

Spec == Init /\ [][Next]_vars

\* Every thread that can take a step takes one: each getter in read(), rank
\* 0's main thread inside handleData and in its event loop, and the probe
\* threads.  The data source is free to offer or not.
PullFair ==
  /\ \A r \in Workers : WF_vars(ReadRequest(r)) /\ WF_vars(ReadReply(r))
  /\ WF_vars(HandleDataRecv) /\ WF_vars(HandleDataSend)
  /\ WF_vars(RunDownRecv) /\ WF_vars(RunDownEnd) /\ WF_vars(RunDownReturn)

SpecLive == Spec /\ PullFair /\ WF_vars(CycleNext)

\* The probe cycle with startnotifier and stopnotifier typed on rank 0; the
\* arrivals are the getters' requests.
BridgeNext ==
  \/ \E r \in Workers : ReadRequest(r)
  \/ CycleNext
  \/ \E st \in BagToSet(threads) : StopRecv(st)
  \/ StartNotifier
  \/ StopNotifier

SpecBridge == Init /\ [][BridgeNext]_vars

\* stopnotifier, stopnotifier, startnotifier typed on rank 0 in that order,
\* starting with the cycle initInteractive started, the second stopnotifier
\* once the first has stopped the cycle.
StopNext ==
  \/ \E r \in Workers : ReadRequest(r)
  \/ CycleNext
  \/ \E st \in BagToSet(threads) : StopRecv(st)
  \/ (nStops = 0 \/ ~CycleRunning) /\ StopNotifierUpTo(MaxStopSeq)
  \/ nStops = MaxStopSeq /\ StartNotifier

\* Every probe thread and rank 0's event loop go on when they can.
SpecStop ==
  /\ Init /\ [][StopNext]_vars
  /\ WF_vars(CycleNext)
  /\ WF_vars(\E st \in BagToSet(threads) : StopRecv(st))

\* Scripts sent around with mpi::mpi execute: rank 0 takes them through its
\* probe cycle, the other ranks in childMainLoop.
CmdNext ==
  \/ \E r \in Ranks : Execute(r)
  \/ \E r \in Ranks : ExecuteLoop(r)
  \/ \E r \in Ranks : ExecuteAllEval(r)
  \/ \E r \in Ranks : ExecuteOthersDone(r)
  \/ \E r \in Ranks : ExecuteRank(r)
  \/ \E r \in Workers : ChildLoop(r)
  \/ \E r \in Ranks : EvalDone(r)
  \/ CycleNext

SpecCmd == Init /\ [][CmdNext]_vars

\* The destinations that are numbers, and those that are other ranks.
RankDests == {d \in Dests : d.kind = "rank"}
WorkerDests == {d \in RankDests : d.rank \in Workers}
GoodDests == {d \in Dests : d.kind = "rank" => d.rank \in Ranks}

\* mpi::mpi execute with a number and mpi::mpi send, on any rank.
SendNext ==
  \/ \E r \in Ranks : ExecuteWith(r, RankDests, {"ok"})
  \/ \E r \in Ranks : ExecuteRank(r)
  \/ \E r \in Ranks : Send(r)
  \/ \E r \in Workers : ChildLoop(r)
  \/ \E r \in Ranks : EvalDone(r)
  \/ CycleNext

SpecSend == Init /\ [][SendNext]_vars

\* Tcl data sent around with mpi::mpi send, to the handlers set with
\* mpi::mpi handle, by rank 0 and by the scripts rank 0 sends to the others.
DataNext ==
  \/ ExecuteWith(0, WorkerDests, {"ok"})
  \/ ExecuteRank(0)
  \/ \E r \in Ranks : SendWith(r, GoodDests)
  \/ \E r \in Ranks : HandleWith(r, HandlerScripts)
  \/ \E r \in Workers : ChildLoop(r)
  \/ \E r \in Ranks : EvalDone(r)
  \/ CycleNext

SpecData == Init /\ [][DataNext]_vars

\* mpi::mpi handle on rank 0 and in the scripts rank 0 sends to the others.
HandleNext ==
  \/ ExecuteWith(0, WorkerDests, {"ok"})
  \/ ExecuteRank(0)
  \/ \E r \in Ranks : Handle(r)
  \/ \E r \in Workers : ChildLoop(r)
  \/ \E r \in Ranks : EvalDone(r)

SpecHandle == Init /\ [][HandleNext]_vars

\* startnotifier and stopnotifier in the scripts rank 0 sends to the others,
\* and messages of an unknown tag.
MiscNext ==
  \/ ExecuteWith(0, WorkerDests, {"ok"})
  \/ ExecuteRank(0)
  \/ \E r \in Workers : StopNotifierOnWorker(r)
  \/ \E r \in Workers : StartNotifierOnWorker(r)
  \/ \E s, d \in Ranks : ForeignSend(s, d)
  \/ \E r \in Workers : ChildLoop(r)
  \/ \E r \in Ranks : EvalDone(r)
  \/ CycleNext

SpecMisc == Init /\ [][MiscNext]_vars

\* The destinations that are no rank.
BadDests == RankDests \ GoodDests

\* Rank r is not inside CMPIDataGetter::read.
NotReading(r) == IF r = 0 THEN TRUE ELSE gPc[r] # "wait"

\* Commands that fail, on rank 0 between the calls of the distributor and
\* in the scripts rank 0 sends to the others, which also read data.
FrameNext ==
  \/ \E r \in Workers : wPc[r] = "eval" /\ ReadRequest(r)
  \/ \E r \in Workers : ReadReply(r)
  \/ OfferData
  \/ HandleDataRecv
  \/ HandleDataSend
  \/ ExecuteWith(0, WorkerDests \cup BadDests, {"ok"})
  \/ ExecuteRank(0)
  \/ NotReading(0) /\ SendWith(0, BadDests)
  \/ \E r \in Ranks : NotReading(r) /\ handler[r] = 0 /\ HandleWith(r, {1})
  \/ \E r \in Workers : NotReading(r) /\ StopNotifierOnWorker(r)
  \/ \E r \in Workers : NotReading(r) /\ StartNotifierOnWorker(r)
  \/ NotReading(0) /\ BadCommand(0)
  \/ \E r \in Workers : ChildLoop(r)
  \/ \E r \in Ranks : NotReading(r) /\ EvalDone(r)

SpecFrame == Init /\ [][FrameNext]_vars

\* The destination that is rank 0.
ZeroDest == {d \in RankDests : d.rank = 0}

\* Scripts sent one after the other between two ranks: by rank 0 to the
\* others, which take them in childMainLoop, and by the others' scripts to
\* rank 0, which takes them through its probe cycle.
OrderNext ==
  \/ ExecuteUpTo(0, WorkerDests, {"ok"}, MaxOrdered)
  \/ \E r \in Workers : ExecuteUpTo(r, ZeroDest, {"ok"}, MaxOrdered)
  \/ \E r \in Ranks : ExecuteRank(r)
  \/ \E r \in Workers : ChildLoop(r)
  \/ \E r \in Ranks : EvalDone(r)
  \/ StartNotifier
  \/ CycleNext

SpecOrder == Init /\ [][OrderNext]_vars

\* ================================================================ claims
\* handleData(end of data) has returned.
RundownReturned == ended /\ mainPc \notin {"rd_loop", "rd_end"}

\* The last reply the distributor sent to rank r (0: none, or zero length).
LastReplyTo(r) ==
  LET idx == {i \in 1 .. Len(replies) : replies[i][1] = r} IN
    IF idx = {} THEN 0
    ELSE replies[CHOOSE i \in idx : \A j \in idx : j <= i][2]

\* C1: once the end of data has been offered, every rank with a pull request
\* outstanding, then or later, receives a zero length reply.  Only the
\* rundown sends such replies: once it has returned, a getter that waits in
\* read() (and whose request the event processor did not take) must have its
\* reply in flight.
C1_RundownReachesEveryRequester ==
  \A r \in Workers :
    (RundownReturned /\ gPc[r] = "wait" /\ r \notin stolen)
      => HasTag(chan[0][r], MPI_TAG_BINDATA)

\* C2: every request the distributor receives is answered exactly once, by a
\* reply to the rank that sent it, in the order of receipt: a record for a
\* request taken by a data offer, zero length for one taken by the rundown.
\* At most the request just received is unanswered.
C2_AnsweredOnceInOrder ==
  /\ IsPrefix(replies, received)
  /\ Len(received) <= Len(replies) + 1
  /\ (mainPc \notin {"hd_send", "rd_end"}) => replies = received

C2_Witness ==
  /\ \E i \in 1 .. Len(replies) : replies[i][2] > 0
  /\ \E i \in 1 .. Len(replies) : replies[i][2] = 0

\* C3 as stated: a rank is in the ConsumerSet if and only if it has an
\* outstanding pull request (its read() has sent the request and has not
\* returned).
C3_SetIsOutstandingRequesters ==
  \A r \in Workers : (r \in clientRanks) <=> (gPc[r] = "wait")

\* C3 as amended: a rank is in the ConsumerSet if and only if the last reply
\* the distributor sent to it was a data record.
C3_SetIsServedNotEnded ==
  \A r \in Ranks : (r \in clientRanks) <=> (LastReplyTo(r) > 0)

C3_Witness ==
  \E r, q \in Workers :
    /\ r \in clientRanks
    /\ q \notin clientRanks
    /\ \E i \in 1 .. Len(replies) : replies[i] = <<q, 0>>
    /\ \E i \in 1 .. Len(replies) : replies[i][1] = q /\ replies[i][2] > 0

\* C4: whenever handleData(end of data) has returned, the ConsumerSet is
\* empty.
C4_EmptyAfterRundown == RundownReturned => clientRanks = {}

C4_Witness ==
  /\ RundownReturned
  /\ \E i \in 1 .. Len(replies) : replies[i][2] = 0
  /\ \E r \in Workers : gPc[r] = "wait" /\ HasTag(chan[r][0], MPI_TAG_BINDATA)

\* What one getter's reads return if it is the only one to read: the records
\* offered so far in order, then zero length if the end was offered.
OfferedStream ==
  [i \in 1 .. nOffered |-> i] \o (IF ended THEN <<0>> ELSE <<>>)

\* C5: a getter's reads return records in the order they were offered, and
\* the zero length result only after its last record and only once the end
\* was offered; a getter alone gets the offered stream itself: r1, r2, then
\* zero length.
C5_ReadsInOfferOrder ==
  \A r \in Workers :
    /\ \A i, j \in 1 .. Len(got[r]) :
         i < j => (got[r][i] # 0 /\ (got[r][j] # 0 => got[r][i] < got[r][j]))
    /\ (\E i \in 1 .. Len(got[r]) : got[r][i] = 0) => ended
    /\ \A i \in 1 .. Len(got[r]) : got[r][i] <= nOffered
    /\ (\A q \in Workers \ {r} : gPc[q] = "idle" /\ got[q] = <<>>)
         => IsPrefix(got[r], OfferedStream)

C5_Witness ==
  \E r \in Workers : got[r] = <<1, 2, 0>>

\* C6: whenever the main thread dispatches a queued event, a message of the
\* event's source and tag is pending, so that mpiEventProcessor's MPI_Recv
\* returns at once.
C6_DispatchNeverBlocks ==
  mainPc = "ev_recv" => HasTag(chan[curEvent.src][0], curEvent.tag)

\* Events queued or in dispatch.
LiveEvents == Len(events) + (IF Dispatching THEN 1 ELSE 0)

\* C7 as stated: events are dispatched in the order the probe threads
\* observed the arrivals.
C7_DispatchInObservedOrder == IsPrefix(dispatched, observed)

\* C7 as amended: as long as startnotifier was never invoked while the cycle
\* was running, events are dispatched in the order of observation and at most
\* one event is queued or in dispatch.
C7_DispatchInOrderOneCycle ==
  ~startedLive => (IsPrefix(dispatched, observed) /\ LiveEvents <= 1)

C7_Witness ==
  /\ ~startedLive
  /\ Len(dispatched) = 2
  /\ dispatched[1] # dispatched[2]
  /\ nStarts > 0

\* At most one probe thread, and none while an event is queued or in dispatch.
OneOutstandingProbe == NThreads + LiveEvents <= 1

\* C8 as stated: provided startnotifier is only invoked when no probe thread
\* is running, at most one probe thread exists, and none while an event is
\* unprocessed.
C8_OneProbeIfNoThreadAtStart == ~startedRunning => OneOutstandingProbe

\* C8 as amended: provided startnotifier is only invoked when the cycle is
\* not running (no probe thread, no event queued or in dispatch).
C8_OneProbeIfCycleStoppedAtStart == ~startedLive => OneOutstandingProbe

C8_Witness ==
  /\ ~startedLive
  /\ nStarts > 0
  /\ NThreads = 1
  /\ observed # <<>>

\* C9: a probe thread that has observed the STOP_NOTIFIER message consumes
\* it and ends: the job goes on, no event is queued and no thread is spawned.
C9_StopConsumedCycleEnds ==
  [][(\E st \in BagToSet(threads) : StopRecv(st))
       => /\ ~aborted'
          /\ Len(chan'[0][0]) = Len(chan[0][0]) - 1
          /\ events' = events
          /\ NThreads' = NThreads - 1]_vars


Count(q, x) == Cardinality({i \in 1 .. Len(q) : q[i] = x})

\* C10: mpi::mpi execute all s, issued on any rank, has s evaluated exactly
\* once on every rank, on the calling rank only after the sends to all the
\* others: no rank evaluates s twice; once the caller has evaluated s every
\* other rank was sent s exactly once, and the command does not return before;
\* every copy sent is either still pending at its rank or was evaluated there.
C10_ExecuteAllOnceSelfLast ==
  \A c \in 1 .. Len(cmds) :
    (cmds[c].op = "execute" /\ cmds[c].dest.kind = "all") =>
      LET by == cmds[c].by IN
        /\ \A r \in Ranks : Count(evalLog[r], c) <= 1
        /\ Count(sentTo[c], by) = 0
        /\ \A r \in Ranks \ {by} :
             /\ Count(sentTo[c], r) <= 1
             /\ Count(evalLog[by], c) = 1 => Count(sentTo[c], r) = 1
             /\ Count(sentTo[c], r) =
                  Count(evalLog[r], c) + Count(chan[by][r], Msg(MPI_TAG_SCRIPT, c))
        /\ cmd[by].sid # c => Count(evalLog[by], c) = 1

C10_Witness ==
  \E c \in 1 .. Len(cmds) :
    /\ cmds[c].op = "execute"
    /\ cmds[c].dest.kind = "all"
    /\ cmds[c].kind = "exit"
    /\ cmds[c].by # 0
    /\ \A r \in Ranks : Count(evalLog[r], c) = 1
    /\ \A r \in Ranks : PcOf(r) = "exited"

\* Command c is an mpi::mpi op with a destination of kind k.
IsCmd(c, op, k) == cmds[c].op = op /\ cmds[c].dest.kind = k

\* Command c is over: it has returned, or its script ended the process.
Returned(c) == cmd[cmds[c].by].sid # c

ValidRank(d) == d >= 0 /\ d < GroupSize

\* C11: mpi::mpi execute d s with 0 <= d < group size has s evaluated exactly
\* once on rank d and on no other rank: no rank but d ever evaluates s and d
\* at most once; if d is the caller, s is evaluated there by the time the
\* command is over and nothing is sent; otherwise exactly one copy is sent,
\* to d, by the time the command returns, and every copy sent is pending at d
\* or was evaluated there.
C11_ExecuteRankOnceAtDest ==
  \A c \in 1 .. Len(cmds) :
    (IsCmd(c, "execute", "rank") /\ ValidRank(cmds[c].dest.rank)) =>
      LET by == cmds[c].by
          d  == cmds[c].dest.rank
      IN /\ \A r \in Ranks \ {d} : Count(evalLog[r], c) = 0
         /\ Count(evalLog[d], c) <= 1
         /\ sentTo[c] \in (IF d = by THEN {<<>>} ELSE {<<>>, <<d>>})
         /\ Returned(c) =>
              IF d = by THEN Count(evalLog[d], c) = 1 ELSE sentTo[c] = <<d>>
         /\ d # by =>
              Len(sentTo[c]) =
                Count(evalLog[d], c) + Count(chan[by][d], Msg(MPI_TAG_SCRIPT, c))

C11_Witness ==
  \E c, e \in 1 .. Len(cmds) :
    /\ IsCmd(c, "execute", "rank") /\ IsCmd(e, "execute", "rank")
    /\ cmds[c].by # 0 /\ cmds[c].dest.rank = 0
    /\ cmds[e].by = 0 /\ cmds[e].dest.rank = cmds[c].by
    /\ Count(evalLog[0], c) = 1
    /\ Returned(c)

\* C12: mpi::mpi execute others s never has s evaluated on the calling rank
\* and sends s exactly once to every other rank: never to the caller, at most
\* once to each other rank, and to all of them by the time the command
\* returns.
C12_ExecuteOthersNeverSelf ==
  \A c \in 1 .. Len(cmds) :
    IsCmd(c, "execute", "others") =>
      LET by == cmds[c].by IN
        /\ Count(evalLog[by], c) = 0
        /\ Count(sentTo[c], by) = 0
        /\ \A r \in Ranks \ {by} :
             /\ Count(sentTo[c], r) <= 1
             /\ Returned(c) => Count(sentTo[c], r) = 1

C12_Witness ==
  \E c \in 1 .. Len(cmds) :
    /\ IsCmd(c, "execute", "others")
    /\ cmds[c].by # 0
    /\ Returned(c)
    /\ result[cmds[c].by] = "ok"
    /\ \A r \in Ranks \ {cmds[c].by} : Count(evalLog[r], c) = 1

Last(q) == q[Len(q)]

\* A destination that is a number and no rank.
InvalidDest(d) == d.kind = "rank" /\ ~ValidRank(d.rank)

\* C13: mpi::mpi execute and mpi::mpi send with a number outside
\* [0, group size) as destination fail with the invalid rank error as the
\* command's result; the steps of such a command send no message and hand
\* nothing to the engine or to a handler.
C13_InvalidDestinationIsRefused ==
  [][/\ \A r \in Ranks :
          /\ (cmd'[r].op = "execute" /\ InvalidDest(cmd'[r].dest)
                /\ cmd[r] = NoCmd)
               => (chan' = chan /\ evalLog' = evalLog /\ invoked' = invoked)
          /\ (cmd[r].op = "execute" /\ InvalidDest(cmd[r].dest)
                /\ cmd'[r] # cmd[r])
               => /\ cmd'[r] = NoCmd
                  /\ result'[r] = "Invalid rank for execute"
                  /\ chan' = chan /\ evalLog' = evalLog /\ invoked' = invoked
     /\ (Len(cmds') > Len(cmds) /\ Last(cmds').op = "send"
           /\ InvalidDest(Last(cmds').dest))
          => /\ result'[Last(cmds').by] = "Invalid rank for send"
             /\ chan' = chan /\ evalLog' = evalLog /\ invoked' = invoked
    ]_vars

C13_Witness ==
  \E c, e \in 1 .. Len(cmds) :
    /\ cmds[c].op = "send" /\ InvalidDest(cmds[c].dest)
    /\ cmds[e].op = "execute" /\ InvalidDest(cmds[e].dest) /\ Returned(e)
    /\ cmds[c].dest.rank # cmds[e].dest.rank
    /\ result[cmds[c].by] = "Invalid rank for send"
    /\ result[cmds[e].by] = "Invalid rank for execute"

\* C14: mpi::mpi send all data sends the data to every rank except the
\* caller and only then delivers it to the caller: whatever the command
\* addresses to the caller itself is the last thing it does.
C14_SendAllSelfLast ==
  \A c \in 1 .. Len(cmds) :
    IsCmd(c, "send", "all") =>
      \A i \in 1 .. Len(sentTo[c]) :
        sentTo[c][i] = cmds[c].by => i = Len(sentTo[c])

\* C15: for execute and for send, a number that is the caller's own rank
\* puts no message on the bus: no command sends to the rank that runs it,
\* and no script or Tcl data is ever pending from a rank to itself.
C15_NoSelfMessages ==
  /\ \A c \in 1 .. Len(cmds) : Count(sentTo[c], cmds[c].by) = 0
  /\ \A r \in Ranks :
       /\ ~HasTag(chan[r][r], MPI_TAG_SCRIPT)
       /\ ~HasTag(chan[r][r], MPI_TAG_TCLDATA)

\* What the most recent handle command with a parameter, before the i-th
\* handle command of a process, was given (0: the empty string, or there was
\* none).
LastSetBefore(log, i) ==
  LET idx == {j \in 1 .. (i - 1) : log[j][1] = "set"} IN
    IF idx = {} THEN 0
    ELSE log[CHOOSE j \in idx : \A k \in idx : k <= j][2]

\* C16: on every process, after any sequence of mpi::mpi handle commands, a
\* query returns the script of the most recent set, and the empty string if
\* there was no set or the most recent one gave the empty string; the one
\* handler registered is that same script: a set replaces the handler.
C16_HandleRoundTrip ==
  \A r \in Ranks :
    /\ \A i \in 1 .. Len(hLog[r]) :
         hLog[r][i][1] = "get" => hLog[r][i][2] = LastSetBefore(hLog[r], i)
    /\ handler[r] = LastSetBefore(hLog[r], Len(hLog[r]) + 1)

C16_Witness ==
  \E r \in Workers : \E q \in Ranks \ {r} :
    /\ hLog[r] = << <<"set", 1>>, <<"set", 2>> >>
    /\ hLog[q] = << <<"get", 0>> >>
    /\ handler[r] = 2

RoleViolations == {"stopnotifier can only be used in rank 0",
                   "startnotifier can only be used in rank 0"}

\* C17: mpi::mpi startnotifier and mpi::mpi stopnotifier on a rank other than
\* 0 fail with the rank 0 only error as the command's result and do nothing
\* else: no message is sent, no probe thread is created, no event is queued;
\* no stop message ever comes from such a rank.
C17_NotifierOnlyOnRankZero ==
  /\ [][\A r \in Workers :
          (StopNotifierOnWorker(r) \/ StartNotifierOnWorker(r))
            => /\ result'[r] \in RoleViolations
               /\ chan' = chan
               /\ threads' = threads
               /\ events' = events]_vars
  /\ [](\A r \in Workers, d \in Ranks :
          ~HasTag(chan[r][d], MPI_TAG_STOPTHREAD))

C17_Witness ==
  \E r, q \in Workers :
    /\ result[r] = "stopnotifier can only be used in rank 0"
    /\ result[q] = "startnotifier can only be used in rank 0"
    /\ NThreads = 1

\* The tags mpiEventProcessor knows.
KnownTags == {MPI_TAG_SCRIPT, MPI_TAG_TCLDATA, MPI_TAG_BINDATA}

\* Rank r's mpiEventProcessor receives a message of an unknown tag in this
\* step.
TakesUnknown(r) ==
  /\ Len(taken'[r]) = Len(taken[r]) + 1
  /\ Last(taken'[r])[2] \notin KnownTags

\* C20: a message with a tag that is not recognized is received, so it is
\* no longer pending, and nothing is evaluated for it; a worker goes back to
\* its probe, rank 0 goes on to restart its receiver thread, which it does.
C20_UnknownTagIsDiscarded ==
  [][/\ \A r \in Ranks :
          TakesUnknown(r) =>
            /\ HasTag(chan[Last(taken'[r])[1]][r], Last(taken'[r])[2])
            /\ chan' = MPI_Recv(chan, Last(taken'[r])[1], r, Last(taken'[r])[2])
            /\ evalLog' = evalLog
            /\ invoked' = invoked
            /\ curScript' = curScript
            /\ PcOf(r)' = (IF r = 0 THEN "ev_restart" ELSE "probe")
     /\ (mainPc = "ev_restart" /\ mainPc' # mainPc)
          => (mainPc' = "idle" /\ NThreads' = NThreads + 1)
    ]_vars

C20_Witness ==
  \E w \in Workers :
    /\ Len(taken[0]) = 1 /\ taken[0][1][2] = UnknownTag
    /\ Len(taken[w]) = 1 /\ taken[w][1][2] = UnknownTag
    /\ mainPc = "idle" /\ NThreads = 1
    /\ wPc[w] = "eval"

\* The Tcl data messages rank d received while it had a handler.
DataHandled(d) ==
  SelectSeq(taken[d], LAMBDA t : t[2] = MPI_TAG_TCLDATA /\ t[4] # 0)

\* The times rank d received the data of command c from rank s.
TimesTaken(d, s, c) ==
  Cardinality({i \in 1 .. Len(taken[d]) :
                 /\ taken[d][i][1] = s
                 /\ taken[d][i][2] = MPI_TAG_TCLDATA
                 /\ taken[d][i][3] = c})

\* C19: every Tcl data message sent is pending at its destination or was
\* received there exactly once; the handler invocations of a process are,
\* in order, one for each Tcl data message it received while a handler was
\* registered, with that handler, the source rank and the payload; a message
\* received without a handler causes none, and no Tcl data is ever handed to
\* the engine as a script.
C19_DataToHandlerOnce ==
  /\ \A c \in 1 .. Len(cmds) :
       cmds[c].op = "send" =>
         \A d \in Ranks :
           Count(sentTo[c], d) =
             Count(chan[cmds[c].by][d], Msg(MPI_TAG_TCLDATA, c))
               + TimesTaken(d, cmds[c].by, c)
  /\ \A d \in Ranks :
       /\ invoked[d] = [i \in 1 .. Len(DataHandled(d)) |->
                          <<DataHandled(d)[i][4], DataHandled(d)[i][1],
                            DataHandled(d)[i][3]>>]
       /\ \A i \in 1 .. Len(evalLog[d]) : cmds[evalLog[d][i]].op = "execute"

C19_Witness ==
  \E c \in 1 .. Len(cmds) : \E d, e \in Ranks :
    /\ IsCmd(c, "send", "all")
    /\ d # e
    /\ invoked[d] = << <<2, cmds[c].by, c>> >>
    /\ taken[e] = << <<cmds[c].by, MPI_TAG_TCLDATA, c, 0>> >>
    /\ invoked[e] = <<>>

\* The results of the commands that fail with a caller-facing error.
FailTexts ==
  RoleViolations \cup {"Invalid rank for execute", "Invalid rank for send",
                       "Unrecognized subcommand", "wrong number of parameters"}

\* A command of rank r ends with such an error in this step.
Fails(r) ==
  /\ result'[r] \in FailTexts
  /\ result'[r] # result[r] \/ cmds' # cmds \/ cmd'[r] # cmd[r]

\* C18: a command that fails with an invalid rank, rank 0 only, unknown
\* subcommand or wrong number of parameters error leaves the handler of
\* every process and the distributor's set of consumers as they were.
C18_FailedCommandChangesNothing ==
  [][\A r \in Ranks :
       Fails(r) => (handler' = handler /\ clientRanks' = clientRanks)]_vars

C18_Witness ==
  \E w \in Workers :
    /\ result[0] = "Invalid rank for send"
    /\ handler[0] = 1
    /\ w \in clientRanks
    /\ result[w] \in RoleViolations
    /\ handler[w] = 1

\* The scripts pending from rank s to rank d, oldest first.
PendingScripts(s, d) ==
  LET q == SelectSeq(chan[s][d], LAMBDA m : m.tag = MPI_TAG_SCRIPT) IN
    [i \in 1 .. Len(q) |-> q[i].body]

Increasing(q) == \A i, j \in 1 .. Len(q) : i < j => q[i] < q[j]

\* C21: the scripts a rank sends to another rank with mpi::mpi execute are
\* evaluated there in the order they were sent, on rank 0 as on the others.
\* A rank runs one command at a time, so it sends its scripts in the order
\* of their commands: those of rank s that rank d has evaluated, followed by
\* those still pending from s to d, are in that order, none twice.
C21_ScriptsInSendOrder ==
  \A s, d \in Ranks :
    s # d =>
      Increasing(SelectSeq(evalLog[d], LAMBDA c : cmds[c].by = s)
                   \o PendingScripts(s, d))

C21_Witness ==
  \E w \in Workers : \E a, b, c, e \in 1 .. Len(cmds) :
    /\ cmds[a].by = 0 /\ cmds[b].by = 0 /\ a < b
    /\ cmds[c].by = w /\ cmds[e].by = w /\ c < e
    /\ evalLog[w] = <<a, b>>
    /\ evalLog[0] = <<c, e>>
    /\ mainPc = "idle"

\* The requests rank r has sent that the distributor received.
TakenByDistributor(r) ==
  Cardinality({i \in 1 .. Len(received) : received[i][1] = r})

\* C22: every pull request of a getter is received by the distributor and
\* by nothing else, also while rank 0's probe cycle runs: mpiEventProcessor
\* never receives one, and a getter that waits in read() has its request
\* pending or received by the distributor, one more than it had replies.
C22_OnlyDistributorTakesRequests ==
  /\ stolen = {}
  /\ \A r \in Workers :
       gPc[r] = "wait" =>
         Count(chan[r][0], Msg(MPI_TAG_BINDATA, 0)) + TakenByDistributor(r)
           = Len(got[r]) + 1

\* C23: the rundown terminates.  Every getter that is not done reads again
\* (PullFair), so every rank in the set of consumers issues one more request:
\* once the end of data is offered handleData returns, and every rank that is
\* in the set during the rundown has a read return zero length.
C23_RundownTerminates ==
  /\ ended ~> RundownReturned
  /\ \A r \in Workers : (ended /\ r \in clientRanks) ~> (gPc[r] = "ended")

\* handleData(end of data) is running.
InRundown == mainPc \in {"rd_loop", "rd_end"}

\* C24: a request the rundown receives from a rank that is not in the set
\* of consumers is answered with a zero length reply to that rank and leaves
\* the set as it was; no step of the rundown adds a rank to the set; a rank
\* is only added by handleData replying with a record, and it is the rank
\* that reply goes to.
C24_RundownNeverAdds ==
  [][/\ (mainPc = "rd_loop" /\ mainPc' = "rd_end")
          => hdTo' = Last(received')[1]
     /\ (mainPc = "rd_end" /\ mainPc' # mainPc /\ hdTo \notin clientRanks)
          => /\ chan' = MPI_Send(chan, 0, hdTo, MPI_TAG_BINDATA, 0)
             /\ replies' = Append(replies, <<hdTo, 0>>)
             /\ clientRanks' = clientRanks
     /\ InRundown => clientRanks' \subseteq clientRanks
     /\ ~(clientRanks' \subseteq clientRanks)
          => /\ mainPc = "hd_send" /\ hdInfo > 0
             /\ clientRanks' = clientRanks \cup {hdTo}
             /\ Last(replies') = <<hdTo, hdInfo>>
    ]_vars

C24_Witness ==
  \E q \in Workers :
    /\ mainPc = "rd_loop"
    /\ clientRanks # {}
    /\ q \notin clientRanks
    /\ \A i \in 1 .. Len(replies) : replies[i][1] = q => replies[i][2] = 0
    /\ \E i \in 1 .. Len(replies) : replies[i] = <<q, 0>>

\* C25: whenever rank 0's main thread is done with an arrival event, whatever
\* the tag and however the evaluation ended (unless the script exited the
\* process), it is back in its event loop with exactly one probe thread more
\* than before.
C25_EveryEventRearms ==
  [][(Dispatching /\ ~Dispatching' /\ mainPc' # "exited")
       => (mainPc' = "idle" /\ NThreads' = NThreads + 1)]_vars

\* C26: a worker's loop goes on for ever: the step that ends the dispatch of
\* a message, whatever the message and however its evaluation ended, takes
\* the worker back to its probe, unless the script exited the process; the
\* loop itself never ends.
C26_WorkerLoopGoesOn ==
  [][\A r \in Workers :
       /\ (wPc[r] = "eval" /\ wPc'[r] \notin {"eval", "cmd", "exited"})
            => wPc'[r] = "probe"
       /\ wPc[r] = "probe" => wPc'[r] \in {"probe", "eval"}]_vars

StopPending == HasTag(chan[0][0], MPI_TAG_STOPTHREAD)

\* C27: of two stopnotifier commands the first stops the cycle and the
\* message of the second stays queued to rank 0 while no probe thread runs;
\* the probe thread of the startnotifier that follows receives that message
\* and ends: after stop, stop, start the cycle comes to rest, not running,
\* with no stop message left.
C27_StopStopStartNotRunning ==
  /\ []((nStops = MaxStopSeq /\ nStarts = 0 /\ ~CycleRunning) => StopPending)
  /\ (nStops = MaxStopSeq /\ nStarts = 1)
       ~> [](~CycleRunning /\ ~StopPending)

\* Some probe thread can still observe an arrival, or an event whose
\* dispatch ends with a new probe thread is queued or in dispatch.
AbleToObserve ==
  \/ \E st \in BagToSet(threads) : st.pc # "stoprecv"
  \/ events # <<>>
  \/ Dispatching

RepliesWith(k) == {i \in 1 .. Len(replies) : replies[i][2] = k}
RequestsFor(k) == {i \in 1 .. Len(received) : received[i][2] = k}

\* The copies of record k that a getter has read, and those that wait for
\* one: <<rank, position>>.
ReadCopies(k) ==
  {p \in Workers \X (1 .. nOffered + 1) :
     p[2] <= Len(got[p[1]]) /\ got[p[1]][p[2]] = k}
WaitingCopies(k) ==
  {p \in Workers \X (1 .. nOffered + 1) :
     /\ p[2] <= Len(chan[0][p[1]])
     /\ chan[0][p[1]][p[2]] = Msg(MPI_TAG_BINDATA, k)}

\* Rank r has never sent a request.
NeverRequested(r) == r = 0 \/ (gPc[r] = "idle" /\ got[r] = <<>>)

\* C30: however many getters there are, a record is sent once, to one
\* getter, which reads it once: the record being offered has taken no
\* request yet or exactly one and has no copy until it is sent; every record
\* offered before has taken exactly one request and has exactly one copy,
\* read by a getter or waiting for it.  A rank that has never sent a request
\* has no binary data waiting, has read none, was never replied to and is
\* not in the set of consumers.
C30_EachRecordToOneGetter ==
  /\ \A k \in 1 .. nOffered :
       LET offering == k = nOffered /\ mainPc \in {"hd_recv", "hd_send"} IN
         /\ Cardinality(RepliesWith(k)) = (IF offering THEN 0 ELSE 1)
         /\ Cardinality(ReadCopies(k)) + Cardinality(WaitingCopies(k))
              = Cardinality(RepliesWith(k))
         /\ Cardinality(RequestsFor(k)) =
              (IF k = nOffered /\ mainPc = "hd_recv" THEN 0 ELSE 1)
         /\ \A i \in RepliesWith(k) :
              \A c \in ReadCopies(k) \cup WaitingCopies(k) :
                c[1] = replies[i][1]
  /\ \A r \in Ranks :
       NeverRequested(r) =>
         /\ ~HasTag(chan[0][r], MPI_TAG_BINDATA)
         /\ r \notin clientRanks
         /\ \A i \in 1 .. Len(replies) : replies[i][1] # r

C30_Witness ==
  \E r, q \in Workers :
    /\ r # q
    /\ got[r] = <<1, 2>>
    /\ gPc[q] = "idle" /\ got[q] = <<>>
    /\ clientRanks = {r}
    /\ mainPc = "idle"
=============================================================================
